---- MODULE Spec2Model ----
(***************************************************************************)
(* GRASP heuristic for graph vertex colouring (src/algorithms/grasp.rs).   *)
(*                                                                         *)
(* The graph is a set of vertices 0..num_vertices-1 and a set of           *)
(* unordered edges.  Every Vec of the program is a TLA+ sequence; a Rust   *)
(* index i is the TLA+ position i+1.  Colours are 1-based, so colour c is  *)
(* the class at TLA+ position c.  Each random pick of the program is a     *)
(* nondeterministic choice among the elements of the slice it picks from.  *)
(***************************************************************************)
EXTENDS Integers, Sequences, FiniteSets, TLC

\* Bounds of the model.
MaxN == 4
MaxGraspIterations == 2
MaxColorIterations == 2
MaxColorListSize == 2
MaxRerunN == 5
MaxQN == 3
MaxQList == 2

\* Stands for usize::MAX, the initial min_num_edges_remaining: only its being
\* larger than every edge count matters.
UsizeMax == 2147483647

VARIABLES
    num_vertices,            \* graph.num_vertices()
    edges,                   \* the adjacency relation, a set of {u, v}
    grasp_iterations,        \* parameters of grasp
    color_iterations,
    color_list_size,
    pc,                      \* position of the program
    restart,                 \* index of the `for _ in 0..grasp_iterations` loop
    num_colors,              \* grasp: best number of colours so far
    best_class_list,         \* grasp: best class list so far
    num_color_classes,       \* grasp: classes of the current restart
    vertex_set,              \* grasp: uncolored vertices
    class_list,              \* grasp: class list of the current restart
    trial,                   \* index of the `for _ in 0..color_iterations` loop
    min_num_edges_remaining,
    admissible_uncolored,    \* assign_color locals
    inadmissible_uncolored,
    current_color_class,
    num_forbidden,           \* improve_phase locals
    new_classes,
    forbidden_count,         \* local_search locals
    forbidden_vertices,
    no_improvement,
    run,                     \* 1: improve_phase as called by grasp, 2: run again
    first_num_classes,       \* num_classes left by the first run
    q_n,                     \* arguments and result of a direct call of
    q_subset,                \* get_n_largest_degree
    q_list,
    q_result

vars == <<num_vertices, edges, grasp_iterations, color_iterations, color_list_size,
          pc, restart, num_colors, best_class_list, num_color_classes, vertex_set,
          class_list, trial, min_num_edges_remaining, admissible_uncolored,
          inadmissible_uncolored, current_color_class, num_forbidden, new_classes,
          forbidden_count, forbidden_vertices, no_improvement, run,
          first_num_classes, q_n, q_subset, q_list, q_result>>

graphVars == <<num_vertices, edges, grasp_iterations, color_iterations, color_list_size>>
graspVars == <<restart, num_colors, best_class_list>>
assignVars == <<admissible_uncolored, inadmissible_uncolored, current_color_class>>
searchVars == <<forbidden_count, forbidden_vertices, no_improvement>>
rerunVars == <<run, first_num_classes>>
queryVars == <<q_n, q_subset, q_list, q_result>>

----------------------------------------------------------------------------
\* Vec helpers.

Min(a, b) == IF a < b THEN a ELSE b

Contains(s, x) == \E i \in DOMAIN s : s[i] = x

Elems(s) == {s[i] : i \in DOMAIN s}

\* (0..n).collect()
Range0(n) == [i \in 1..n |-> i - 1]

\* Vec::resize(n, Vec::new()) on a Vec of Vecs
Resize(s, n) == [i \in 1..n |-> IF i <= Len(s) THEN s[i] ELSE <<>>]

\* Vec::remove(index), index a Rust index
RemoveAt(s, index) ==
    [i \in 1..(Len(s) - 1) |-> IF i <= index THEN s[i] ELSE s[i + 1]]

\* Iterator::position, a Rust index (the caller unwraps: the element is there)
Position(s, x) == (CHOOSE i \in DOMAIN s : s[i] = x /\ \A j \in 1..(i - 1) : s[j] # x) - 1

\* Mutant of SortDescBySecond: the comparison the other way round
\* (lhs.1.cmp(&rhs.1)), an ascending sort.
SortAscBySecond(s) ==
    LET before(i) == {j \in DOMAIN s : s[j][2] < s[i][2] \/ (s[j][2] = s[i][2] /\ j < i)}
    IN  [k \in 1..Len(s) |-> s[CHOOSE i \in DOMAIN s : Cardinality(before(i)) = k - 1]]

\* sort_by(|lhs, rhs| rhs.1.cmp(&lhs.1)): the stable sort of a Vec of pairs by
\* descending second component.
SortDescBySecond(s) ==
    LET before(i) == {j \in DOMAIN s : s[j][2] > s[i][2] \/ (s[j][2] = s[i][2] /\ j < i)}
    IN  [k \in 1..Len(s) |-> s[CHOOSE i \in DOMAIN s : Cardinality(before(i)) = k - 1]]

None == [some |-> FALSE, val |-> <<>>]
Some(l) == [some |-> TRUE, val |-> l]

----------------------------------------------------------------------------
\* The graph oracle (crate::graph::Graph).

Vertices == 0..(num_vertices - 1)

Adjacent(u, v) == {u, v} \in edges

get_neighbors(v) ==
    SelectSeq(Range0(num_vertices), LAMBDA u : Adjacent(v, u))

get_degree_in_list(v, list) ==
    Cardinality({i \in DOMAIN list : Adjacent(v, list[i])})

\* The coloring helpers of the parent module.

get_coloring_from_class_list(n, cl) ==
    [v \in 0..(n - 1) |->
        IF \E c \in DOMAIN cl : Contains(cl[c], v)
        THEN CHOOSE c \in DOMAIN cl : Contains(cl[c], v)
        ELSE 0]

count_forbidden_per_vertex(coloring, v) ==
    Cardinality({u \in Vertices : Adjacent(v, u) /\ coloring[u] = coloring[v]})

----------------------------------------------------------------------------
\* Pure functions of grasp.rs.

get_n_largest_degree(n, subset, list) ==
    LET l == IF list.some THEN list.val ELSE subset
        degrees == [i \in 1..num_vertices |-> <<i - 1, get_degree_in_list(i - 1, l)>>]
        retained == SelectSeq(degrees, LAMBDA x : Contains(subset, x[1]))
        sorted == SortDescBySecond(retained)
    IN  [i \in 1..Min(n, Len(sorted)) |-> sorted[i][1]]

count_remaining_edges(list) ==
    Cardinality({p \in (DOMAIN list) \X (DOMAIN list) :
                    p[1] < p[2] /\ Adjacent(list[p[1]], list[p[2]])})

get_forbidden(cl) ==
    LET coloring == get_coloring_from_class_list(num_vertices, cl)
        bad == {p \in Vertices \X Vertices :
                   p[1] <= p[2] /\ Adjacent(p[1], p[2]) /\ coloring[p[1]] = coloring[p[2]]}
    IN  [count |-> Cardinality(bad),
         forbidden |-> {p[1] : p \in bad} \cup {p[2] : p \in bad}]

----------------------------------------------------------------------------
\* Initial states: every simple graph on 1..MaxN vertices, every parameter >= 1.

AllEdges(n) == {{u, v} : u \in 0..(n - 1), v \in 0..(n - 1)} \ {{u} : u \in 0..(n - 1)}

IdleLocals ==
    /\ restart = 0
    /\ num_color_classes = 0
    /\ vertex_set = <<>>
    /\ class_list = <<>>
    /\ trial = 0
    /\ min_num_edges_remaining = UsizeMax
    /\ admissible_uncolored = <<>>
    /\ inadmissible_uncolored = <<>>
    /\ current_color_class = <<>>
    /\ num_forbidden = 0
    /\ new_classes = <<>>
    /\ forbidden_count = 0
    /\ forbidden_vertices = {}
    /\ no_improvement = 0
    /\ run = 1
    /\ first_num_classes = 0

IdleQuery ==
    /\ q_n = 0
    /\ q_subset = <<>>
    /\ q_list = None
    /\ q_result = <<>>

Init ==
    /\ num_vertices \in 1..MaxN
    /\ edges \in SUBSET AllEdges(num_vertices)
    /\ grasp_iterations \in 1..MaxGraspIterations
    /\ color_iterations \in 1..MaxColorIterations
    /\ color_list_size \in 1..MaxColorListSize
    /\ pc = "grasp"
    /\ num_colors = num_vertices
    /\ best_class_list = <<>>
    /\ IdleLocals
    /\ IdleQuery

----------------------------------------------------------------------------
\* grasp: the construction phase.

\* One pass of `for _ in 0..grasp_iterations`: lines 55-59.
GraspRestart ==
    /\ pc = "grasp"
    /\ restart < grasp_iterations
    /\ num_color_classes' = 0
    /\ vertex_set' = Range0(num_vertices)
    /\ class_list' = Resize(<<>>, num_vertices)
    /\ pc' = "construct"
    /\ UNCHANGED <<graphVars, graspVars, trial, min_num_edges_remaining, assignVars,
                   num_forbidden, new_classes, searchVars, rerunVars, queryVars>>

\* Line 85.
GraspReturn ==
    /\ pc = "grasp"
    /\ restart >= grasp_iterations
    /\ pc' = "done"
    /\ UNCHANGED <<graphVars, graspVars, num_color_classes, vertex_set, class_list, trial,
                   min_num_edges_remaining, assignVars, num_forbidden, new_classes,
                   searchVars, rerunVars, queryVars>>

\* One pass of `while !vertex_set.is_empty()` up to the inner loop: lines 61-64.
OpenClass ==
    /\ pc = "construct"
    /\ vertex_set # <<>>
    /\ min_num_edges_remaining' = UsizeMax
    /\ num_color_classes' = num_color_classes + 1
    /\ trial' = 0
    /\ pc' = "color"
    /\ UNCHANGED <<graphVars, graspVars, vertex_set, class_list, assignVars,
                   num_forbidden, new_classes, searchVars, rerunVars, queryVars>>

\* assign_color is entered: lines 96-98.
AssignColorEnter ==
    /\ pc = "color"
    /\ trial < color_iterations
    /\ admissible_uncolored' = vertex_set
    /\ inadmissible_uncolored' = <<>>
    /\ current_color_class' = <<>>
    /\ pc' = "assign"
    /\ UNCHANGED <<graphVars, graspVars, num_color_classes, vertex_set, class_list, trial,
                   min_num_edges_remaining, num_forbidden, new_classes, searchVars,
                   rerunVars, queryVars>>

candidate_list ==
    IF inadmissible_uncolored = <<>>
    THEN get_n_largest_degree(color_list_size, admissible_uncolored, None)
    ELSE get_n_largest_degree(color_list_size, admissible_uncolored,
                              Some(inadmissible_uncolored))

\* Mutant of AssignColorPick: the retain of line 116 drops the picked vertex
\* only, not its neighbors.
AssignColorPickKeepsNeighbors ==
    /\ pc = "assign"
    /\ admissible_uncolored # <<>>
    /\ IF candidate_list = <<>>
       THEN /\ pc' = "abort"
            /\ UNCHANGED assignVars
       ELSE \E k \in DOMAIN candidate_list :
               LET vertex == candidate_list[k]
                   neighbors == get_neighbors(vertex)
               IN  /\ current_color_class' = Append(current_color_class, vertex)
                   /\ admissible_uncolored' =
                          SelectSeq(admissible_uncolored, LAMBDA node : node # vertex)
                   /\ inadmissible_uncolored' = inadmissible_uncolored \o neighbors
                   /\ pc' = "assign"
    /\ UNCHANGED <<graphVars, graspVars, num_color_classes, vertex_set, class_list, trial,
                   min_num_edges_remaining, num_forbidden, new_classes, searchVars,
                   rerunVars, queryVars>>

\* One pass of `while !admissible_uncolored.is_empty()`: lines 100-121.
AssignColorPick ==
    /\ pc = "assign"
    /\ admissible_uncolored # <<>>
    /\ IF candidate_list = <<>>
       THEN /\ pc' = "abort"
            /\ UNCHANGED assignVars
       ELSE \E k \in DOMAIN candidate_list :
               LET vertex == candidate_list[k]
                   neighbors == get_neighbors(vertex)
               IN  /\ current_color_class' = Append(current_color_class, vertex)
                   /\ admissible_uncolored' =
                          SelectSeq(admissible_uncolored,
                                    LAMBDA node : node # vertex /\ ~Contains(neighbors, node))
                   /\ inadmissible_uncolored' = inadmissible_uncolored \o neighbors
                   /\ pc' = "assign"
    /\ UNCHANGED <<graphVars, graspVars, num_color_classes, vertex_set, class_list, trial,
                   min_num_edges_remaining, num_forbidden, new_classes, searchVars,
                   rerunVars, queryVars>>

\* The end of assign_color, lines 122-129, where its locals are dropped, and the
\* step of the `for` of line 66.
AssignColorCommit ==
    /\ pc = "assign"
    /\ admissible_uncolored = <<>>
    /\ LET remaining_vertices ==
               SelectSeq(vertex_set, LAMBDA vertex : ~Contains(current_color_class, vertex))
           remaining_edges == count_remaining_edges(remaining_vertices)
       IN  IF remaining_edges < min_num_edges_remaining
           THEN /\ class_list' = [class_list EXCEPT ![num_color_classes] = current_color_class]
                /\ min_num_edges_remaining' = remaining_edges
           ELSE UNCHANGED <<class_list, min_num_edges_remaining>>
    /\ admissible_uncolored' = <<>>
    /\ inadmissible_uncolored' = <<>>
    /\ current_color_class' = <<>>
    /\ trial' = trial + 1
    /\ pc' = "color"
    /\ UNCHANGED <<graphVars, graspVars, num_color_classes, vertex_set,
                   num_forbidden, new_classes, searchVars, rerunVars, queryVars>>

\* Line 77, after the last pass of the `for` of line 66; the locals of the pass
\* of the `while` go out of scope.
CloseClass ==
    /\ pc = "color"
    /\ trial >= color_iterations
    /\ vertex_set' = SelectSeq(vertex_set,
                               LAMBDA vertex : ~Contains(class_list[num_color_classes], vertex))
    /\ trial' = 0
    /\ min_num_edges_remaining' = UsizeMax
    /\ pc' = "construct"
    /\ UNCHANGED <<graphVars, graspVars, num_color_classes, class_list,
                   assignVars, num_forbidden, new_classes, searchVars, rerunVars,
                   queryVars>>

----------------------------------------------------------------------------
\* improve_phase and local_search.

\* Lines 136-143: (index, length) of the first num_classes classes, sorted.
lenghts(num_classes, cl) ==
    SortDescBySecond([i \in 1..Min(num_classes, Len(cl)) |-> <<i - 1, Len(cl[i])>>])

\* Lines 145-150: the Rust indices of the (at most) two last entries of lenghts.
smallest_lengths(num_classes, cl) ==
    LET l == lenghts(num_classes, cl)
    IN  [k \in 1..Min(2, Len(l)) |-> l[Len(l) + 1 - k][1]]

\* Lines 152-156.
combined_class(num_classes, cl) ==
    LET sl == smallest_lengths(num_classes, cl)
    IN  IF Len(sl) = 0 THEN <<>>
        ELSE IF Len(sl) = 1 THEN cl[sl[1] + 1]
        ELSE cl[sl[1] + 1] \o cl[sl[2] + 1]

\* Line 163 reads smallest_lengths[0] and, unless the index is smallest_lengths[0],
\* smallest_lengths[1]: an index out of bounds aborts the program.
MergeIndexOutOfBounds(num_classes, cl) ==
    LET sl == smallest_lengths(num_classes, cl)
    IN  \E index \in 0..(Len(cl) - 1) :
            \/ Len(sl) = 0
            \/ Len(sl) = 1 /\ index # sl[1]

\* Lines 158-167, when no index is out of bounds.
merged_classes(num_classes, cl) ==
    LET sl == smallest_lengths(num_classes, cl)
        kept == SelectSeq(Range0(Len(cl)),
                          LAMBDA index : ~(Contains(sl, index) \/ cl[index + 1] = <<>>))
    IN  <<combined_class(num_classes, cl)>> \o [k \in 1..Len(kept) |-> cl[kept[k] + 1]]

\* grasp calls improve_phase: line 79 and line 133.
ImproveEnter ==
    /\ pc = "construct"
    /\ vertex_set = <<>>
    /\ num_forbidden' = 0
    /\ pc' = "improve"
    /\ UNCHANGED <<graphVars, graspVars, num_color_classes, vertex_set, class_list, trial,
                   min_num_edges_remaining, assignVars, new_classes, searchVars,
                   rerunVars, queryVars>>

\* One pass of `while num_forbidden == 0` up to the loop of local_search:
\* lines 136-169 and 206-210.
ImproveMerge ==
    /\ pc = "improve"
    /\ num_forbidden = 0
    /\ IF MergeIndexOutOfBounds(num_color_classes, class_list)
       THEN /\ pc' = "abort"
            /\ UNCHANGED <<new_classes, searchVars>>
       ELSE LET merged == merged_classes(num_color_classes, class_list)
                f == get_forbidden(merged)
            IN  /\ new_classes' = merged
                /\ forbidden_count' = f.count
                /\ forbidden_vertices' = f.forbidden
                /\ no_improvement' = 0
                /\ pc' = "search"
    /\ UNCHANGED <<graphVars, graspVars, num_color_classes, vertex_set, class_list, trial,
                   min_num_edges_remaining, assignVars, num_forbidden, rerunVars, queryVars>>

no_improvement_ceil == num_vertices \div 2

\* Lines 226-233: the scan of the colors i..len for the best one.
RECURSIVE ScanColors(_, _, _, _, _, _)
ScanColors(i, len, coloring, vertex, best_count, best_color) ==
    IF i > len THEN [count |-> best_count, color |-> best_color]
    ELSE LET new_count ==
                 count_forbidden_per_vertex([coloring EXCEPT ![vertex] = i], vertex)
         IN  IF new_count < best_count
             THEN ScanColors(i + 1, len, coloring, vertex, new_count, i)
             ELSE ScanColors(i + 1, len, coloring, vertex, best_count, best_color)

\* Lines 239-244.
MoveVertex(cl, vertex, original_color, best_color) ==
    LET removed == [cl EXCEPT ![original_color] =
                        RemoveAt(cl[original_color], Position(cl[original_color], vertex))]
    IN  [removed EXCEPT ![best_color] = Append(removed[best_color], vertex)]

\* One pass of the `while` of local_search: lines 212-251.
LocalSearchStep ==
    /\ pc = "search"
    /\ forbidden_count > 0
    /\ no_improvement < no_improvement_ceil
    /\ \E vertex \in forbidden_vertices :
          LET coloring == get_coloring_from_class_list(num_vertices, new_classes)
              original_count == count_forbidden_per_vertex(coloring, vertex)
              original_color == coloring[vertex]
              best == ScanColors(1, Len(new_classes), coloring, vertex,
                                 original_count, original_color)
          IN  IF best.count < original_count
              THEN LET moved == MoveVertex(new_classes, vertex, original_color, best.color)
                       f == get_forbidden(moved)
                   IN  /\ no_improvement' = 0
                       /\ new_classes' = moved
                       /\ forbidden_count' = f.count
                       /\ forbidden_vertices' = f.forbidden
              ELSE /\ no_improvement' = no_improvement + 1
                   /\ UNCHANGED <<new_classes, forbidden_count, forbidden_vertices>>
    /\ pc' = "search"
    /\ UNCHANGED <<graphVars, graspVars, num_color_classes, vertex_set, class_list, trial,
                   min_num_edges_remaining, assignVars, num_forbidden, rerunVars, queryVars>>

\* Mutant of LocalSearchReturn: line 172 takes the length of the list that is
\* replaced (class_list.len()) instead of new_classes.len().
LocalSearchReturnOldLen ==
    /\ pc = "search"
    /\ ~(forbidden_count > 0 /\ no_improvement < no_improvement_ceil)
    /\ num_forbidden' = forbidden_count
    /\ IF forbidden_count = 0
       THEN /\ num_color_classes' = Len(class_list)
            /\ class_list' = new_classes
       ELSE UNCHANGED <<num_color_classes, class_list>>
    /\ new_classes' = <<>>
    /\ forbidden_count' = 0
    /\ forbidden_vertices' = {}
    /\ no_improvement' = 0
    /\ pc' = "improve"
    /\ UNCHANGED <<graphVars, graspVars, vertex_set, trial, min_num_edges_remaining,
                   assignVars, rerunVars, queryVars>>

\* Mutant of LocalSearchReturn: line 171 accepts a merge that leaves one
\* forbidden edge (num_forbidden <= 1).
LocalSearchReturnLax ==
    /\ pc = "search"
    /\ ~(forbidden_count > 0 /\ no_improvement < no_improvement_ceil)
    /\ num_forbidden' = IF forbidden_count <= 1 THEN 0 ELSE forbidden_count
    /\ IF forbidden_count <= 1
       THEN /\ num_color_classes' = Len(new_classes)
            /\ class_list' = new_classes
       ELSE UNCHANGED <<num_color_classes, class_list>>
    /\ new_classes' = <<>>
    /\ forbidden_count' = 0
    /\ forbidden_vertices' = {}
    /\ no_improvement' = 0
    /\ pc' = "improve"
    /\ UNCHANGED <<graphVars, graspVars, vertex_set, trial, min_num_edges_remaining,
                   assignVars, rerunVars, queryVars>>

\* local_search returns and improve_phase takes its result: lines 253 and 169-174.
\* The locals of local_search and new_classes (moved or dropped) are gone.
LocalSearchReturn ==
    /\ pc = "search"
    /\ ~(forbidden_count > 0 /\ no_improvement < no_improvement_ceil)
    /\ num_forbidden' = forbidden_count
    /\ IF forbidden_count = 0
       THEN /\ num_color_classes' = Len(new_classes)
            /\ class_list' = new_classes
       ELSE UNCHANGED <<num_color_classes, class_list>>
    /\ new_classes' = <<>>
    /\ forbidden_count' = 0
    /\ forbidden_vertices' = {}
    /\ no_improvement' = 0
    /\ pc' = "improve"
    /\ UNCHANGED <<graphVars, graspVars, vertex_set, trial, min_num_edges_remaining,
                   assignVars, rerunVars, queryVars>>

\* improve_phase returns to grasp: lines 177-178, then 80-83 and the step of
\* the `for` of line 54, where the locals of the restart go out of scope.
ImproveReturn ==
    /\ pc = "improve"
    /\ num_forbidden # 0
    /\ run = 1
    /\ IF num_color_classes < num_colors
       THEN /\ best_class_list' = Resize(class_list, num_vertices)
            /\ num_colors' = num_color_classes
       ELSE UNCHANGED <<best_class_list, num_colors>>
    /\ class_list' = <<>>
    /\ num_color_classes' = 0
    /\ num_forbidden' = 0
    /\ restart' = restart + 1
    /\ pc' = "grasp"
    /\ UNCHANGED <<graphVars, vertex_set, trial, min_num_edges_remaining,
                   assignVars, new_classes, searchVars, rerunVars, queryVars>>

Next ==
    \/ GraspRestart
    \/ GraspReturn
    \/ OpenClass
    \/ AssignColorEnter
    \/ AssignColorPick
    \/ AssignColorCommit
    \/ CloseClass
    \/ ImproveEnter
    \/ ImproveMerge
    \/ LocalSearchStep
    \/ LocalSearchReturn
    \/ ImproveReturn

Spec == Init /\ [][Next]_vars

\* The program is sequential: a step that can be taken is taken.
FairSpec == Init /\ [][Next]_vars /\ WF_vars(Next)

----------------------------------------------------------------------------
\* improve_phase run a second time on what its first run left, in place of the
\* return to grasp.

\* The first run returns (lines 177-178) and the second is entered (line 133).
RerunImprove ==
    /\ pc = "improve"
    /\ num_forbidden # 0
    /\ run = 1
    /\ class_list' = Resize(class_list, num_vertices)
    /\ first_num_classes' = num_color_classes
    /\ run' = 2
    /\ num_forbidden' = 0
    /\ pc' = "improve"
    /\ UNCHANGED <<graphVars, graspVars, num_color_classes, vertex_set, trial,
                   min_num_edges_remaining, assignVars, new_classes, searchVars, queryVars>>

\* The second run returns (lines 177-178).
RerunReturn ==
    /\ pc = "improve"
    /\ num_forbidden # 0
    /\ run = 2
    /\ class_list' = Resize(class_list, num_vertices)
    /\ pc' = "rerun_done"
    /\ UNCHANGED <<graphVars, graspVars, num_color_classes, vertex_set, trial,
                   min_num_edges_remaining, assignVars, num_forbidden, new_classes,
                   searchVars, rerunVars, queryVars>>

\* improve_phase is entered with a class list that one assign_color per class
\* can build: what the best of several trials commits is what one of them built.
InitRerun ==
    /\ num_vertices \in 1..MaxRerunN
    /\ edges \in SUBSET AllEdges(num_vertices)
    /\ grasp_iterations = 1
    /\ color_iterations = 1
    /\ color_list_size \in 1..MaxColorListSize
    /\ pc = "grasp"
    /\ num_colors = num_vertices
    /\ best_class_list = <<>>
    /\ IdleLocals
    /\ IdleQuery

NextRerun ==
    \/ GraspRestart
    \/ OpenClass
    \/ AssignColorEnter
    \/ AssignColorPick
    \/ AssignColorCommit
    \/ CloseClass
    \/ ImproveEnter
    \/ ImproveMerge
    \/ LocalSearchStep
    \/ LocalSearchReturn
    \/ RerunImprove
    \/ RerunReturn

SpecRerun == InitRerun /\ [][NextRerun]_vars

----------------------------------------------------------------------------
\* get_n_largest_degree called on its own: any graph, any duplicate-free subset
\* in any order, any list (absent, or any vertices, repeated or not), any count.

SeqsUpTo(S, k) == UNION {[1..m -> S] : m \in 0..k}

DuplicateFree(s) == \A i, j \in DOMAIN s : i # j => s[i] # s[j]

InitLargest ==
    /\ num_vertices \in 1..MaxQN
    /\ edges \in SUBSET AllEdges(num_vertices)
    /\ grasp_iterations = 1
    /\ color_iterations = 1
    /\ color_list_size = 1
    /\ pc = "query"
    /\ num_colors = num_vertices
    /\ best_class_list = <<>>
    /\ IdleLocals
    /\ q_n \in 0..(MaxQN + 1)
    /\ q_subset \in {sq \in SeqsUpTo(Vertices, num_vertices) : DuplicateFree(sq)}
    /\ q_list \in {None} \cup {Some(l) : l \in SeqsUpTo(Vertices, MaxQList)}
    /\ q_result = <<>>

CallLargest ==
    /\ pc = "query"
    /\ q_result' = get_n_largest_degree(q_n, q_subset, q_list)
    /\ pc' = "answered"
    /\ UNCHANGED <<graphVars, graspVars, num_color_classes, vertex_set, class_list, trial,
                   min_num_edges_remaining, assignVars, num_forbidden, new_classes,
                   searchVars, rerunVars, q_n, q_subset, q_list>>

NextLargest == CallLargest

SpecLargest == InitLargest /\ [][NextLargest]_vars

----------------------------------------------------------------------------
\* Properties.

\* No two members of a class are adjacent.
IsProper(cl) ==
    \A c \in DOMAIN cl : \A i, j \in DOMAIN cl[c] : ~Adjacent(cl[c][i], cl[c][j])

\* Every vertex is in exactly one class, once, and nothing else is in a class.
CoversOnce(cl) ==
    /\ \A c \in DOMAIN cl : DuplicateFree(cl[c]) /\ Elems(cl[c]) \subseteq Vertices
    /\ \A v \in Vertices : Cardinality({c \in DOMAIN cl : Contains(cl[c], v)}) = 1

NonEmptyCount(cl) == Cardinality({c \in DOMAIN cl : cl[c] # <<>>})

\* C1: when grasp returns (num_colors, best_class_list), no two adjacent
\* vertices are members of the same class of the returned list.
C1_ReturnedListIsProper ==
    pc = "done" => IsProper(best_class_list)

C1_Witness ==
    /\ pc = "done"
    /\ edges # {}
    /\ NonEmptyCount(best_class_list) >= 2
    /\ \E c \in DOMAIN best_class_list : Len(best_class_list[c]) >= 2

\* C2: the class list grasp returns contains every vertex 0..n-1 in exactly
\* one non-empty class.
C2_ReturnedListCovers ==
    pc = "done" => CoversOnce(best_class_list)

\* C3: the num_colors grasp returns is the number of non-empty classes of the
\* returned list, and is at most n.
C3_NumColorsCountsClasses ==
    pc = "done" =>
        /\ num_colors = NonEmptyCount(best_class_list)
        /\ num_colors <= num_vertices

\* C4: on a graph without edges grasp does not abort, and what it returns is
\* num_colors = 1 with all vertices in one single class.
C4_EdgelessOneClass ==
    edges = {} =>
        /\ pc # "abort"
        /\ pc = "done" =>
              /\ num_colors = 1
              /\ NonEmptyCount(best_class_list) = 1
              /\ \E c \in DOMAIN best_class_list : Elems(best_class_list[c]) = Vertices

\* C5: the improvement phase, once entered, comes to an end: it returns to
\* grasp (an abort is counted as an end too).
C5_ImprovePhaseEnds ==
    (pc = "improve") ~> (pc \in {"grasp", "done", "abort"})

\* C6, as claimed: improve_phase run again on what it left leaves num_classes
\* unchanged.
C6_RerunLeavesNumClasses ==
    pc = "rerun_done" => num_color_classes = first_num_classes

\* C6, as amended: improve_phase run again on what it left never raises
\* num_classes (it leaves it unchanged or lowers it).
C6_RerunNeverRaisesNumClasses ==
    pc = "rerun_done" => num_color_classes <= first_num_classes

C6_Witness ==
    /\ pc = "rerun_done"
    /\ num_color_classes < first_num_classes

\* C7: each accepted merge adopts a proper class list that holds every vertex
\* once, has no empty class and has one non-empty class fewer than the list
\* before the merge.
C7_AcceptedMerge ==
    [][(pc = "search" /\ pc' = "improve" /\ num_forbidden' = 0) =>
          /\ IsProper(class_list')
          /\ CoversOnce(class_list')
          /\ \A c \in DOMAIN class_list' : class_list'[c] # <<>>
          /\ NonEmptyCount(class_list') = NonEmptyCount(class_list) - 1]_vars

\* C8: at the end of the construction phase, just before improve_phase is
\* called, the first num_color_classes classes are non-empty independent sets,
\* pairwise disjoint, their union is the vertex set, and the later slots are
\* empty.
C8_ConstructionPartition ==
    (pc = "construct" /\ vertex_set = <<>>) =>
        /\ Len(class_list) = num_vertices
        /\ num_color_classes \in 1..num_vertices
        /\ \A c \in 1..num_color_classes : class_list[c] # <<>>
        /\ \A c \in (num_color_classes + 1)..num_vertices : class_list[c] = <<>>
        /\ IsProper(class_list)
        /\ CoversOnce(class_list)

C8_Witness ==
    /\ pc = "construct"
    /\ vertex_set = <<>>
    /\ color_iterations >= 2
    /\ num_color_classes >= 3
    /\ \E c \in DOMAIN class_list : Len(class_list[c]) >= 2

\* C9: at every pass of the class-building loop of assign_color, admissible and
\* inadmissible are disjoint subsets of the uncolored set U, admissible is the
\* vertices of U neither in the class C nor adjacent to a member of C, and
\* inadmissible holds only vertices adjacent to a member of C.
C9_AdmissibleInadmissible ==
    (pc = "assign" /\ admissible_uncolored # <<>>) =>
        LET U == Elems(vertex_set)
            C == Elems(current_color_class)
            A == Elems(admissible_uncolored)
            I == Elems(inadmissible_uncolored)
        IN  /\ A \cap I = {}
            /\ A \subseteq U
            /\ I \subseteq U
            /\ A = {v \in U : v \notin C /\ \A w \in C : ~Adjacent(v, w)}
            /\ \A v \in I : \E w \in C : Adjacent(v, w)

\* C10: get_n_largest_degree returns min(n, |S|) distinct vertices of S, by
\* non-increasing degree against the list, none left out has a greater degree
\* than a returned one, and equal degrees come in ascending vertex order
\* whatever the order of S (a vertex left out with the degree of a returned one
\* has a greater index).
C10_LargestDegree ==
    pc = "answered" =>
        LET l == IF q_list.some THEN q_list.val ELSE q_subset
            deg(v) == Cardinality({i \in DOMAIN l : Adjacent(v, l[i])})
            S == Elems(q_subset)
            R == Elems(q_result)
        IN  /\ Len(q_result) = Min(q_n, Len(q_subset))
            /\ DuplicateFree(q_result)
            /\ R \subseteq S
            /\ \A i, j \in DOMAIN q_result :
                  i < j => \/ deg(q_result[i]) > deg(q_result[j])
                           \/ /\ deg(q_result[i]) = deg(q_result[j])
                              /\ q_result[i] < q_result[j]
            /\ \A v \in S \ R : \A w \in R :
                  \/ deg(v) < deg(w)
                  \/ deg(v) = deg(w) /\ v > w

C10_Witness ==
    /\ pc = "answered"
    /\ q_list.some
    /\ Len(q_result) = 2
    /\ Len(q_subset) = 3
    /\ q_subset[1] > q_subset[2]
    /\ get_degree_in_list(q_result[1], q_list.val) = get_degree_in_list(q_result[2], q_list.val)
    /\ get_degree_in_list(q_result[1], q_list.val) > 0

====
